---- MODULE Spec2Model ----
(***************************************************************************)
(* Model of the SX127x radio driver core (drivers/sx127x/sx127x.c):        *)
(* the DIO interrupt service routines, the consumer-context DIO handlers,  *)
(* the timeout timer callbacks, and the chip registers they touch.         *)
(*                                                                         *)
(* Register values and flag words are integers and the C operators & and   *)
(* | are computed bit by bit (BitAnd, BitOr).                              *)
(***************************************************************************)
EXTENDS Integers, Sequences, FiniteSets, TLC

VARIABLES
    dev,        \* the sx127x_t device descriptor (fields used by the driver core)
    chip,       \* the chip's registers behind the SPI bus
    pin,        \* pin[l]: DIO line l has a rising edge not yet taken by the MCU
    bus,        \* register accesses made by the last operation of this file, in order
    sink,       \* events given to netdev->event_callback by the last operation
    op,         \* name of the last operation
    notified,   \* InterruptPending notifications not yet taken by the consumer
    cpc,        \* position of the consumer context
    snapshot,   \* the consumer's local copy of dev->irq
    raised,     \* raised[l]: edges of line l recorded by its ISR so far
    observed,   \* observed[l]: edges of line l the consumer has handled so far
    rng,        \* the noise source and what the last sx127x_random call returned
    boot        \* the run of sx127x_init: position, clock, calls made, result

vars == <<dev, chip, pin, bus, sink, op, notified, cpc, snapshot, raised, observed,
          rng, boot>>

(***************************************************************************)
(* Bounds of the exploration.                                              *)
(***************************************************************************)
MaxEdges == 2

(***************************************************************************)
(* Bit arithmetic on unsigned values.                                      *)
(***************************************************************************)
RECURSIVE BitAnd(_, _)
BitAnd(a, b) ==
    IF a = 0 \/ b = 0 THEN 0
    ELSE (a % 2) * (b % 2) + 2 * BitAnd(a \div 2, b \div 2)

BitOr(a, b) == a + b - BitAnd(a, b)

BitClear(a, b) == a - BitAnd(a, b)

(***************************************************************************)
(* Register map and bit fields (sx127x_registers.h), DIO flags and         *)
(* settings flags (sx127x.h).                                              *)
(***************************************************************************)
SX127X_REG_LR_IRQFLAGSMASK == 17
SX127X_REG_LR_IRQFLAGS == 18
SX127X_REG_LR_HOPCHANNEL == 28
SX127X_REG_LR_RSSIWIDEBAND == 44

SX127X_RF_LORA_IRQFLAGS_RXTIMEOUT == 128
SX127X_RF_LORA_IRQFLAGS_RXDONE == 64
SX127X_RF_LORA_IRQFLAGS_PAYLOADCRCERROR == 32
SX127X_RF_LORA_IRQFLAGS_VALIDHEADER == 16
SX127X_RF_LORA_IRQFLAGS_TXDONE == 8
SX127X_RF_LORA_IRQFLAGS_CADDONE == 4
SX127X_RF_LORA_IRQFLAGS_FHSSCHANGEDCHANNEL == 2
SX127X_RF_LORA_IRQFLAGS_CADDETECTED == 1

SX127X_RF_LORA_HOPCHANNEL_CHANNEL_MASK == 63

SX127X_IRQ_DIO0 == 1
SX127X_IRQ_DIO1 == 2
SX127X_IRQ_DIO2 == 4
SX127X_IRQ_DIO3 == 8

SX127X_ENABLE_CRC_FLAG == 2
SX127X_CHANNEL_HOPPING_FLAG == 16

SX127X_RF_IDLE == "Idle"
SX127X_RF_RX_RUNNING == "RxRunning"
SX127X_RF_TX_RUNNING == "TxRunning"
SX127X_RF_SLEEP == "Sleep"

SX127X_RF_OPMODE_SLEEP == "OpModeSleep"
SX127X_RF_OPMODE_RECEIVER == "OpModeReceiver"

SX127X_MODEM_FSK == "FSK"
SX127X_MODEM_LORA == "LoRa"
Modems == {SX127X_MODEM_FSK, SX127X_MODEM_LORA}

NETDEV_EVENT_ISR == "InterruptPending"
NETDEV_EVENT_RX_COMPLETE == "RxComplete"
NETDEV_EVENT_TX_COMPLETE == "TxComplete"
NETDEV_EVENT_RX_TIMEOUT == "RxTimeout"
NETDEV_EVENT_TX_TIMEOUT == "TxTimeout"
NETDEV_EVENT_FHSS_CHANGE_CHANNEL == "FhssChangeChannel"
NETDEV_EVENT_CAD_DONE == "CadDone"

Lines == 0 .. 3

DioFlag(l) ==
    CASE l = 0 -> SX127X_IRQ_DIO0
      [] l = 1 -> SX127X_IRQ_DIO1
      [] l = 2 -> SX127X_IRQ_DIO2
      [] l = 3 -> SX127X_IRQ_DIO3

(***************************************************************************)
(* The chip.  What the chip latches in RegIrqFlags when it pulses line l,  *)
(* and the raw RegHopChannel values it can show (the two top bits are      *)
(* status bits, the low six the current hop channel).                      *)
(***************************************************************************)
ChipFlagsOfLine(l) ==
    CASE l = 0 -> {SX127X_RF_LORA_IRQFLAGS_TXDONE, SX127X_RF_LORA_IRQFLAGS_RXDONE}
      [] l = 1 -> {SX127X_RF_LORA_IRQFLAGS_RXTIMEOUT}
      [] l = 2 -> {SX127X_RF_LORA_IRQFLAGS_FHSSCHANGEDCHANNEL}
      [] l = 3 -> {SX127X_RF_LORA_IRQFLAGS_CADDONE,
                   BitOr(SX127X_RF_LORA_IRQFLAGS_CADDONE, SX127X_RF_LORA_IRQFLAGS_CADDETECTED)}

HopChannelValues == {195, 133}

Total(f) == f[0] + f[1] + f[2] + f[3]

(***************************************************************************)
(* An operation of the driver works on a context                           *)
(*   [dev, chip, bus, sink]                                                *)
(* that starts with empty bus and sink logs; the primitives below are the  *)
(* calls the driver makes, each taking a context to the next one.          *)
(***************************************************************************)
Ctx == [dev |-> dev, chip |-> chip, bus |-> <<>>, sink |-> <<>>]

\* The chip's reaction to a register write: RegIrqFlags is write-1-to-clear.
ChipWrite(ch, reg, val) ==
    IF reg = SX127X_REG_LR_IRQFLAGS
    THEN [ch EXCEPT !.irqflags = BitClear(@, val)]
    ELSE ch

\* The value the chip returns for a register read.
ChipRead(ch, reg) ==
    CASE reg = SX127X_REG_LR_IRQFLAGS -> ch.irqflags
      [] reg = SX127X_REG_LR_HOPCHANNEL -> ch.hopchannel
      [] OTHER -> 0

sx127x_reg_write(c, reg, val) ==
    [c EXCEPT !.bus = Append(@, [rw |-> "w", reg |-> reg, val |-> val]),
              !.chip = ChipWrite(@, reg, val)]

\* A read leaves the chip as it is and is recorded on the bus; its value is
\* ChipRead of the context the read is made in.
sx127x_reg_read(c, reg) ==
    [c EXCEPT !.bus = Append(@, [rw |-> "r", reg |-> reg, val |-> ChipRead(c.chip, reg)])]

sx127x_set_state(c, s) == [c EXCEPT !.dev.state = s]

xtimer_remove_tx(c) == [c EXCEPT !.dev.tx_timeout_timer = FALSE]

xtimer_remove_rx(c) == [c EXCEPT !.dev.rx_timeout_timer = FALSE]

event_callback(c, ev) == [c EXCEPT !.sink = Append(@, ev)]

(***************************************************************************)
(* Commands of the driver's other files that this file calls, by their     *)
(* effect on the device.  Their own register traffic is not recorded.      *)
(***************************************************************************)
do_set_modem(c, m) == [c EXCEPT !.dev.modem = m]

\* Sleep cancels both timers and makes the mode Sleep.
do_set_sleep(c) ==
    [c EXCEPT !.dev.state = SX127X_RF_SLEEP,
              !.dev.tx_timeout_timer = FALSE,
              !.dev.rx_timeout_timer = FALSE]

\* The operating mode the chip is forced into: Sleep, or continuous receive.
do_set_op_mode(c, opmode) ==
    [c EXCEPT !.dev.state = IF opmode = SX127X_RF_OPMODE_SLEEP
                            THEN SX127X_RF_SLEEP
                            ELSE SX127X_RF_RX_RUNNING]

(***************************************************************************)
(* Interrupt context: sx127x_isr, sx127x_on_dio_isr, sx127x_on_dioN_isr.   *)
(***************************************************************************)
sx127x_isr(c) ==
    IF c.dev.event_callback THEN event_callback(c, NETDEV_EVENT_ISR) ELSE c

sx127x_on_dio_isr(c, flag) ==
    sx127x_isr([c EXCEPT !.dev.irq = BitOr(@, flag)])

sx127x_on_dio0_isr(c) == sx127x_on_dio_isr(c, SX127X_IRQ_DIO0)

sx127x_on_dio1_isr(c) == sx127x_on_dio_isr(c, SX127X_IRQ_DIO1)

sx127x_on_dio2_isr(c) == sx127x_on_dio_isr(c, SX127X_IRQ_DIO2)

sx127x_on_dio3_isr(c) == sx127x_on_dio_isr(c, SX127X_IRQ_DIO3)

(***************************************************************************)
(* Consumer context: the internal event handlers.  The diagnostics printed *)
(* by the default branches change nothing and are left out.                *)
(***************************************************************************)
\* sx127x_on_dio0 without the xtimer_remove of the TX_RUNNING branch.
sx127x_on_dio0_keeps_timer(c) ==
    CASE c.dev.state = SX127X_RF_RX_RUNNING ->
            event_callback(c, NETDEV_EVENT_RX_COMPLETE)
      [] c.dev.state = SX127X_RF_TX_RUNNING ->
            LET c2 == IF c.dev.modem = SX127X_MODEM_LORA
                      THEN sx127x_reg_write(c, SX127X_REG_LR_IRQFLAGS,
                                            SX127X_RF_LORA_IRQFLAGS_TXDONE)
                      ELSE c
                c3 == sx127x_set_state(c2, SX127X_RF_IDLE)
            IN  event_callback(c3, NETDEV_EVENT_TX_COMPLETE)
      [] OTHER -> c

\* sx127x_on_dio0 whose RX_RUNNING branch lacks its break and runs on into
\* the TX_RUNNING branch.
sx127x_on_dio0_rx_falls_through(c) ==
    CASE c.dev.state \in {SX127X_RF_RX_RUNNING, SX127X_RF_TX_RUNNING} ->
            LET c0 == IF c.dev.state = SX127X_RF_RX_RUNNING
                      THEN event_callback(c, NETDEV_EVENT_RX_COMPLETE)
                      ELSE c
                c1 == xtimer_remove_tx(c0)
                c2 == IF c1.dev.modem = SX127X_MODEM_LORA
                      THEN sx127x_reg_write(c1, SX127X_REG_LR_IRQFLAGS,
                                            SX127X_RF_LORA_IRQFLAGS_TXDONE)
                      ELSE c1
                c3 == sx127x_set_state(c2, SX127X_RF_IDLE)
            IN  event_callback(c3, NETDEV_EVENT_TX_COMPLETE)
      [] OTHER -> c

\* sx127x_on_dio0 clearing TXDONE whatever the modem (no switch on the modem).
sx127x_on_dio0_always_clears(c) ==
    CASE c.dev.state = SX127X_RF_RX_RUNNING ->
            event_callback(c, NETDEV_EVENT_RX_COMPLETE)
      [] c.dev.state = SX127X_RF_TX_RUNNING ->
            LET c1 == xtimer_remove_tx(c)
                c2 == sx127x_reg_write(c1, SX127X_REG_LR_IRQFLAGS,
                                       SX127X_RF_LORA_IRQFLAGS_TXDONE)
                c3 == sx127x_set_state(c2, SX127X_RF_IDLE)
            IN  event_callback(c3, NETDEV_EVENT_TX_COMPLETE)
      [] OTHER -> c

\* sx127x_on_dio0 removing the RX timer where it should remove the TX timer.
sx127x_on_dio0_wrong_timer(c) ==
    CASE c.dev.state = SX127X_RF_RX_RUNNING ->
            event_callback(c, NETDEV_EVENT_RX_COMPLETE)
      [] c.dev.state = SX127X_RF_TX_RUNNING ->
            LET c1 == xtimer_remove_rx(c)
                c2 == IF c1.dev.modem = SX127X_MODEM_LORA
                      THEN sx127x_reg_write(c1, SX127X_REG_LR_IRQFLAGS,
                                            SX127X_RF_LORA_IRQFLAGS_TXDONE)
                      ELSE c1
                c3 == sx127x_set_state(c2, SX127X_RF_IDLE)
            IN  event_callback(c3, NETDEV_EVENT_TX_COMPLETE)
      [] OTHER -> c

\* sx127x_on_dio0 clearing every flag of RegIrqFlags (0xFF) instead of TXDONE.
sx127x_on_dio0_blanket_clear(c) ==
    CASE c.dev.state = SX127X_RF_RX_RUNNING ->
            event_callback(c, NETDEV_EVENT_RX_COMPLETE)
      [] c.dev.state = SX127X_RF_TX_RUNNING ->
            LET c1 == xtimer_remove_tx(c)
                c2 == IF c1.dev.modem = SX127X_MODEM_LORA
                      THEN sx127x_reg_write(c1, SX127X_REG_LR_IRQFLAGS, 255)
                      ELSE c1
                c3 == sx127x_set_state(c2, SX127X_RF_IDLE)
            IN  event_callback(c3, NETDEV_EVENT_TX_COMPLETE)
      [] OTHER -> c

sx127x_on_dio0(c) ==
    CASE c.dev.state = SX127X_RF_RX_RUNNING ->
            event_callback(c, NETDEV_EVENT_RX_COMPLETE)
      [] c.dev.state = SX127X_RF_TX_RUNNING ->
            LET c1 == xtimer_remove_tx(c)
                c2 == IF c1.dev.modem = SX127X_MODEM_LORA
                      THEN sx127x_reg_write(c1, SX127X_REG_LR_IRQFLAGS,
                                            SX127X_RF_LORA_IRQFLAGS_TXDONE)
                      ELSE c1
                c3 == sx127x_set_state(c2, SX127X_RF_IDLE)
            IN  event_callback(c3, NETDEV_EVENT_TX_COMPLETE)
      [] OTHER -> c

\* sx127x_on_dio1 whose RX_RUNNING/FSK branch lacks its break and runs on into
\* the LoRa branch.
sx127x_on_dio1_fsk_falls_through(c) ==
    CASE c.dev.state = SX127X_RF_RX_RUNNING ->
            LET c1 == xtimer_remove_rx(c)
                c2 == sx127x_reg_write(c1, SX127X_REG_LR_IRQFLAGS,
                                       SX127X_RF_LORA_IRQFLAGS_RXTIMEOUT)
                c3 == sx127x_set_state(c2, SX127X_RF_IDLE)
            IN  event_callback(c3, NETDEV_EVENT_RX_TIMEOUT)
      [] OTHER -> c

\* sx127x_on_dio1 without the xtimer_remove of the RX_RUNNING/LoRa branch.
sx127x_on_dio1_keeps_timer(c) ==
    CASE c.dev.state = SX127X_RF_RX_RUNNING ->
            IF c.dev.modem = SX127X_MODEM_LORA
            THEN LET c2 == sx127x_reg_write(c, SX127X_REG_LR_IRQFLAGS,
                                            SX127X_RF_LORA_IRQFLAGS_RXTIMEOUT)
                     c3 == sx127x_set_state(c2, SX127X_RF_IDLE)
                 IN  event_callback(c3, NETDEV_EVENT_RX_TIMEOUT)
            ELSE c
      [] OTHER -> c

\* sx127x_on_dio1 removing the TX timer where the code removes the RX timer.
sx127x_on_dio1_wrong_timer(c) ==
    CASE c.dev.state = SX127X_RF_RX_RUNNING ->
            IF c.dev.modem = SX127X_MODEM_LORA
            THEN LET c1 == xtimer_remove_tx(c)
                     c2 == sx127x_reg_write(c1, SX127X_REG_LR_IRQFLAGS,
                                            SX127X_RF_LORA_IRQFLAGS_RXTIMEOUT)
                     c3 == sx127x_set_state(c2, SX127X_RF_IDLE)
                 IN  event_callback(c3, NETDEV_EVENT_RX_TIMEOUT)
            ELSE c
      [] OTHER -> c

sx127x_on_dio1(c) ==
    CASE c.dev.state = SX127X_RF_RX_RUNNING ->
            IF c.dev.modem = SX127X_MODEM_LORA
            THEN LET c1 == xtimer_remove_rx(c)
                     c2 == sx127x_reg_write(c1, SX127X_REG_LR_IRQFLAGS,
                                            SX127X_RF_LORA_IRQFLAGS_RXTIMEOUT)
                     c3 == sx127x_set_state(c2, SX127X_RF_IDLE)
                 IN  event_callback(c3, NETDEV_EVENT_RX_TIMEOUT)
            ELSE c
      [] c.dev.state = SX127X_RF_TX_RUNNING -> c
      [] OTHER -> c

\* on_dio2_lora testing the whole flags word instead of the hopping bit.
on_dio2_lora_any_flag(c) ==
    IF c.dev.lora_flags # 0
    THEN LET c1 == sx127x_reg_write(c, SX127X_REG_LR_IRQFLAGS,
                                    SX127X_RF_LORA_IRQFLAGS_FHSSCHANGEDCHANNEL)
             c2 == sx127x_reg_read(c1, SX127X_REG_LR_HOPCHANNEL)
             c3 == [c2 EXCEPT !.dev.last_channel =
                        BitAnd(ChipRead(c1.chip, SX127X_REG_LR_HOPCHANNEL),
                               SX127X_RF_LORA_HOPCHANNEL_CHANNEL_MASK)]
         IN  event_callback(c3, NETDEV_EVENT_FHSS_CHANGE_CHANNEL)
    ELSE c

\* on_dio2_lora storing the raw hop-channel register, unmasked.
on_dio2_lora_unmasked(c) ==
    IF BitAnd(c.dev.lora_flags, SX127X_CHANNEL_HOPPING_FLAG) # 0
    THEN LET c1 == sx127x_reg_write(c, SX127X_REG_LR_IRQFLAGS,
                                    SX127X_RF_LORA_IRQFLAGS_FHSSCHANGEDCHANNEL)
             c2 == sx127x_reg_read(c1, SX127X_REG_LR_HOPCHANNEL)
             c3 == [c2 EXCEPT !.dev.last_channel =
                        ChipRead(c1.chip, SX127X_REG_LR_HOPCHANNEL)]
         IN  event_callback(c3, NETDEV_EVENT_FHSS_CHANGE_CHANNEL)
    ELSE c

\* The body shared by the RX_RUNNING and TX_RUNNING branches of sx127x_on_dio2.
on_dio2_lora(c) ==
    IF BitAnd(c.dev.lora_flags, SX127X_CHANNEL_HOPPING_FLAG) # 0
    THEN LET c1 == sx127x_reg_write(c, SX127X_REG_LR_IRQFLAGS,
                                    SX127X_RF_LORA_IRQFLAGS_FHSSCHANGEDCHANNEL)
             c2 == sx127x_reg_read(c1, SX127X_REG_LR_HOPCHANNEL)
             c3 == [c2 EXCEPT !.dev.last_channel =
                        BitAnd(ChipRead(c1.chip, SX127X_REG_LR_HOPCHANNEL),
                               SX127X_RF_LORA_HOPCHANNEL_CHANNEL_MASK)]
         IN  event_callback(c3, NETDEV_EVENT_FHSS_CHANGE_CHANNEL)
    ELSE c

sx127x_on_dio2(c) ==
    CASE c.dev.state = SX127X_RF_RX_RUNNING ->
            IF c.dev.modem = SX127X_MODEM_LORA THEN on_dio2_lora(c) ELSE c
      [] c.dev.state = SX127X_RF_TX_RUNNING ->
            IF c.dev.modem = SX127X_MODEM_LORA THEN on_dio2_lora(c) ELSE c
      [] OTHER -> c

\* sx127x_on_dio3 whose FSK branch lacks its break and runs on into the LoRa
\* branch.
sx127x_on_dio3_fsk_falls_through(c) ==
    CASE c.dev.modem \in {SX127X_MODEM_FSK, SX127X_MODEM_LORA} ->
            LET c1 == sx127x_reg_write(c, SX127X_REG_LR_IRQFLAGS,
                                       BitOr(SX127X_RF_LORA_IRQFLAGS_CADDETECTED,
                                             SX127X_RF_LORA_IRQFLAGS_CADDONE))
                c2 == sx127x_reg_read(c1, SX127X_REG_LR_IRQFLAGS)
                c3 == [c2 EXCEPT !.dev.is_last_cad_success =
                        (BitAnd(ChipRead(c1.chip, SX127X_REG_LR_IRQFLAGS),
                                SX127X_RF_LORA_IRQFLAGS_CADDETECTED)
                           = SX127X_RF_LORA_IRQFLAGS_CADDETECTED)]
            IN  event_callback(c3, NETDEV_EVENT_CAD_DONE)
      [] OTHER -> c

sx127x_on_dio3(c) ==
    CASE c.dev.modem = SX127X_MODEM_FSK -> c
      [] c.dev.modem = SX127X_MODEM_LORA ->
            LET c1 == sx127x_reg_write(c, SX127X_REG_LR_IRQFLAGS,
                                       BitOr(SX127X_RF_LORA_IRQFLAGS_CADDETECTED,
                                             SX127X_RF_LORA_IRQFLAGS_CADDONE))
                c2 == sx127x_reg_read(c1, SX127X_REG_LR_IRQFLAGS)
                c3 == [c2 EXCEPT !.dev.is_last_cad_success =
                        (BitAnd(ChipRead(c1.chip, SX127X_REG_LR_IRQFLAGS),
                                SX127X_RF_LORA_IRQFLAGS_CADDETECTED)
                           = SX127X_RF_LORA_IRQFLAGS_CADDETECTED)]
            IN  event_callback(c3, NETDEV_EVENT_CAD_DONE)
      [] OTHER -> c

on_dio(l, c) ==
    CASE l = 0 -> sx127x_on_dio0(c)
      [] l = 1 -> sx127x_on_dio1(c)
      [] l = 2 -> sx127x_on_dio2(c)
      [] l = 3 -> sx127x_on_dio3(c)

on_dio_isr(l, c) ==
    CASE l = 0 -> sx127x_on_dio0_isr(c)
      [] l = 1 -> sx127x_on_dio1_isr(c)
      [] l = 2 -> sx127x_on_dio2_isr(c)
      [] l = 3 -> sx127x_on_dio3_isr(c)

(***************************************************************************)
(* The entropy harvester, sx127x_random.  A uint32_t is kept as its two    *)
(* 16-bit halves [hi, lo]; noise[i] is the raw value the wideband-noise    *)
(* register returns on the read of iteration i.                            *)
(***************************************************************************)
RandomBits == 32

RECURSIVE Pow2(_)
Pow2(n) == IF n = 0 THEN 1 ELSE 2 * Pow2(n - 1)

U32Zero == [hi |-> 0, lo |-> 0]

\* (uint32_t) b << i, for b in {0, 1} and i < 32.
U32Shl(b, i) ==
    IF i < 16 THEN [hi |-> 0, lo |-> b * Pow2(i)]
              ELSE [hi |-> b * Pow2(i - 16), lo |-> 0]

U32Or(a, b) == [hi |-> BitOr(a.hi, b.hi), lo |-> BitOr(a.lo, b.lo)]

\* The loop body with = where the code has |=.
random_step_assigns(c, noise, i, rnd) ==
    [ctx |-> [c EXCEPT !.bus = Append(@, [rw |-> "r",
                                          reg |-> SX127X_REG_LR_RSSIWIDEBAND,
                                          val |-> noise[i]])],
     rnd |-> U32Shl(BitAnd(noise[i], 1), i)]

\* One iteration of the loop: read the noise register, OR its low bit into
\* bit i of rnd.
random_step(c, noise, i, rnd) ==
    [ctx |-> [c EXCEPT !.bus = Append(@, [rw |-> "r",
                                          reg |-> SX127X_REG_LR_RSSIWIDEBAND,
                                          val |-> noise[i]])],
     rnd |-> U32Or(rnd, U32Shl(BitAnd(noise[i], 1), i))]

RECURSIVE random_loop(_, _, _, _)
random_loop(c, noise, i, rnd) ==
    IF i < RandomBits
    THEN LET r == random_step(c, noise, i, rnd)
         IN  random_loop(r.ctx, noise, i + 1, r.rnd)
    ELSE [ctx |-> c, rnd |-> rnd]

\* The context the call ends in and the value it returns.
sx127x_random(c, noise) ==
    LET c1 == do_set_modem(c, SX127X_MODEM_LORA)
        c2 == sx127x_reg_write(c1, SX127X_REG_LR_IRQFLAGSMASK,
                BitOr(SX127X_RF_LORA_IRQFLAGS_RXTIMEOUT,
                BitOr(SX127X_RF_LORA_IRQFLAGS_RXDONE,
                BitOr(SX127X_RF_LORA_IRQFLAGS_PAYLOADCRCERROR,
                BitOr(SX127X_RF_LORA_IRQFLAGS_VALIDHEADER,
                BitOr(SX127X_RF_LORA_IRQFLAGS_TXDONE,
                BitOr(SX127X_RF_LORA_IRQFLAGS_CADDONE,
                BitOr(SX127X_RF_LORA_IRQFLAGS_FHSSCHANGEDCHANNEL,
                      SX127X_RF_LORA_IRQFLAGS_CADDETECTED))))))))
        c3 == do_set_op_mode(c2, SX127X_RF_OPMODE_RECEIVER)
        r  == random_loop(c3, noise, 0, U32Zero)
    IN  [ctx |-> do_set_sleep(r.ctx), rnd |-> r.rnd]

\* Mock noise sources: the low bit is 1 exactly at the positions p and q, or
\* exactly everywhere else, over high bits h.
NoiseSource(p, q, inverted, h) ==
    [i \in 0 .. (RandomBits - 1) |->
        h + (IF (i \in {p, q}) # inverted THEN 1 ELSE 0)]

NoiseSources ==
    UNION {{NoiseSource(p, q, inverted, h) :
               q \in p .. (RandomBits - 1), inverted \in BOOLEAN, h \in {0, 254}} :
           p \in 0 .. (RandomBits - 1)}

(***************************************************************************)
(* Timer context: the timeout callbacks installed by _init_timers.         *)
(***************************************************************************)
\* _on_tx_timeout that also puts the driver back to Idle.
_on_tx_timeout_goes_idle(c) ==
    event_callback(sx127x_set_state(c, SX127X_RF_IDLE), NETDEV_EVENT_TX_TIMEOUT)

_on_tx_timeout(c) == event_callback(c, NETDEV_EVENT_TX_TIMEOUT)

_on_rx_timeout(c) == event_callback(c, NETDEV_EVENT_RX_TIMEOUT)

(***************************************************************************)
(* The state machine.                                                      *)
(***************************************************************************)
OpName(kind, l) ==
    CASE l = 0 -> kind \o "0"
      [] l = 1 -> kind \o "1"
      [] l = 2 -> kind \o "2"
      [] l = 3 -> kind \o "3"

(***************************************************************************)
(* Bring-up: sx127x_init and what it calls.  A run is a record: where it   *)
(* stands (pc), the clock in microseconds (now), every call made so far    *)
(* with the time it was made, whether it touches chip registers (spi) and  *)
(* whether it succeeded (ok), which DIO lines are armed, the next line to  *)
(* arm (dio), the edges that fell on unarmed lines (lost) and the value    *)
(* returned (ret).                                                         *)
(***************************************************************************)
MaxOversleep == 1

SX127X_INIT_OK == "SX127X_INIT_OK"
SX127X_ERR_SPI == "SX127X_ERR_SPI"
SX127X_ERR_TEST_FAILED == "SX127X_ERR_TEST_FAILED"

Neg(e) == "-" \o e

BootStart ==
    [pc |-> "_init_peripherals", now |-> 0, log |-> <<>>,
     armed |-> [l \in Lines |-> FALSE], dio |-> 0, lost |-> 0, ret |-> "none"]

Call(b, name, arg, spi, ok) ==
    [b EXCEPT !.log = Append(@, [call |-> name, arg |-> arg, at |-> b.now,
                                 spi |-> spi, ok |-> ok])]

\* xtimer_usleep(us) returns after us microseconds or later: on time, or
\* MaxOversleep microseconds late.
xtimer_usleep(b, us, over) ==
    [Call(b, "xtimer_usleep", "", FALSE, TRUE) EXCEPT !.now = @ + us + over]

Return(b, value) == [b EXCEPT !.pc = "returned", !.ret = value]

_init_peripherals(b, spi_ok, nss_ok) ==
    LET b1 == Call(b, "spi_init_cs", "nss_pin", FALSE, spi_ok)
    IN  IF ~spi_ok
        THEN [boot |-> b1, res |-> 0]
        ELSE LET b2 == Call(b1, "gpio_init", "nss_pin, GPIO_OUT", FALSE, nss_ok)
             IN  IF ~nss_ok
                 THEN [boot |-> b2, res |-> 0]
                 ELSE [boot |-> Call(b2, "gpio_set", "nss_pin", FALSE, TRUE),
                       res |-> 1]

\* sx127x_reset whose second wait is 1 ms instead of 10 ms.
sx127x_reset_short_wait(b, over1, over2) ==
    LET b1 == Call(b, "gpio_init", "reset_pin, GPIO_OUT", FALSE, TRUE)
        b2 == Call(b1, "gpio_clear", "reset_pin", FALSE, TRUE)
        b3 == xtimer_usleep(b2, 1000, over1)
        b4 == Call(b3, "gpio_init", "reset_pin, GPIO_IN", FALSE, TRUE)
    IN  xtimer_usleep(b4, 1000, over2)

sx127x_reset(b, over1, over2) ==
    LET b1 == Call(b, "gpio_init", "reset_pin, GPIO_OUT", FALSE, TRUE)
        b2 == Call(b1, "gpio_clear", "reset_pin", FALSE, TRUE)
        b3 == xtimer_usleep(b2, 1000, over1)
        b4 == Call(b3, "gpio_init", "reset_pin, GPIO_IN", FALSE, TRUE)
    IN  xtimer_usleep(b4, 1000 * 10, over2)

\* One gpio_init_int of _init_isrs that gives up on the first failure.
_init_isrs_line_fatal(b, l, ok) ==
    LET b1 == Call(b, "gpio_init_int", OpName("dio", l) \o "_pin", FALSE, ok)
    IN  IF ok
        THEN [b1 EXCEPT !.armed[l] = TRUE, !.dio = l + 1]
        ELSE Return(b1, Neg(SX127X_ERR_SPI))

\* One gpio_init_int of _init_isrs: line l is armed when the call succeeds; a
\* failure is only logged.
_init_isrs_line(b, l, ok) ==
    LET b1 == Call(b, "gpio_init_int", OpName("dio", l) \o "_pin", FALSE, ok)
    IN  [b1 EXCEPT !.armed[l] = ok, !.dio = l + 1]

\* The statements of sx127x_init, each leaving the run at the next one.
sx127x_init_peripherals(b, spi_ok, nss_ok) ==
    LET r == _init_peripherals(b, spi_ok, nss_ok)
    IN  IF r.res = 0
        THEN Return(r.boot, Neg(SX127X_ERR_SPI))
        ELSE [r.boot EXCEPT !.pc = "sx127x_test"]

\* The presence test with its result ignored.
sx127x_init_test_ignored(b, present) ==
    [Call(b, "sx127x_test", "", TRUE, present) EXCEPT !.pc = "_init_timers"]

\* The presence test followed at once by _init_isrs.
sx127x_init_test_arms_next(b, present) ==
    LET b1 == Call(b, "sx127x_test", "", TRUE, present)
    IN  IF ~present
        THEN Return(b1, Neg(SX127X_ERR_TEST_FAILED))
        ELSE [b1 EXCEPT !.pc = "_init_isrs"]

sx127x_init_test(b, present) ==
    LET b1 == Call(b, "sx127x_test", "", TRUE, present)
    IN  IF ~present
        THEN Return(b1, Neg(SX127X_ERR_TEST_FAILED))
        ELSE [b1 EXCEPT !.pc = "_init_timers"]

sx127x_init_timers(b, over) ==
    [xtimer_usleep(Call(b, "_init_timers", "", FALSE, TRUE), 1000, over)
        EXCEPT !.pc = "sx127x_reset"]

sx127x_init_reset(b, over1, over2) ==
    [sx127x_reset(b, over1, over2) EXCEPT !.pc = "sx127x_rx_chain_calibration"]

sx127x_init_calibration(b) ==
    [Call(b, "sx127x_rx_chain_calibration", "", TRUE, TRUE)
        EXCEPT !.pc = "sx127x_set_op_mode"]

sx127x_init_sleep(b) ==
    [Call(b, "sx127x_set_op_mode", "SX127X_RF_OPMODE_SLEEP", TRUE, TRUE)
        EXCEPT !.pc = "_init_isrs"]

sx127x_init_return(b) == Return(b, SX127X_INIT_OK)

\* A run in which every call succeeded and no wait overran.
BootCompleted ==
    LET b1 == sx127x_init_peripherals(BootStart, TRUE, TRUE)
        b2 == sx127x_init_test(b1, TRUE)
        b3 == sx127x_init_timers(b2, 0)
        b4 == sx127x_init_reset(b3, 0, 0)
        b5 == sx127x_init_calibration(b4)
        b6 == sx127x_init_sleep(b5)
        b7 == _init_isrs_line(_init_isrs_line(_init_isrs_line(_init_isrs_line(
                  b6, 0, TRUE), 1, TRUE), 2, TRUE), 3, TRUE)
    IN  sx127x_init_return(b7)

\* The device after sx127x_setup and a completed initialisation: Sleep, no
\* timer armed, nothing recorded; the upper layer may or may not have
\* registered its event sink.
Init ==
    /\ dev \in [state : {SX127X_RF_SLEEP},
                modem : {SX127X_MODEM_LORA},
                lora_flags : {SX127X_ENABLE_CRC_FLAG},
                tx_timeout_timer : {FALSE},
                rx_timeout_timer : {FALSE},
                last_channel : {0},
                is_last_cad_success : {FALSE},
                irq : {0},
                event_callback : BOOLEAN]
    /\ chip = [irqflags |-> 0, hopchannel |-> 0]
    /\ pin = [l \in Lines |-> FALSE]
    /\ bus = <<>>
    /\ sink = <<>>
    /\ op = "init"
    /\ notified = 0
    /\ cpc = "idle"
    /\ snapshot = 0
    /\ raised = [l \in Lines |-> 0]
    /\ observed = [l \in Lines |-> 0]
    /\ rng = [noise |-> NoiseSource(0, 31, FALSE, 254), called |-> FALSE, ret |-> U32Zero]
    /\ boot = BootCompleted

\* What an operation leaves behind: the context it ended in, and its name.
Commit(c, name) ==
    /\ dev' = c.dev
    /\ chip' = c.chip
    /\ bus' = c.bus
    /\ sink' = c.sink
    /\ op' = name

\* The chip latches flags, moves its hop channel and pulses DIO line l.
ChipPulse(l) ==
    /\ ~pin[l]
    /\ boot.armed[l]
    /\ Total(raised) + Cardinality({k \in Lines : pin[k]}) + boot.lost < MaxEdges
    /\ \E f \in ChipFlagsOfLine(l) :
       \E h \in (IF l = 2 THEN HopChannelValues ELSE {chip.hopchannel}) :
          Commit([Ctx EXCEPT !.chip = [irqflags |-> BitOr(chip.irqflags, f),
                                       hopchannel |-> h]], "chip")
    /\ pin' = [pin EXCEPT ![l] = TRUE]
    /\ UNCHANGED <<rng, boot, notified, cpc, snapshot, raised, observed>>

\* The MCU takes the rising edge of line l: sx127x_on_dio<l>_isr runs.
DioIsr(l) ==
    /\ pin[l]
    /\ LET c == on_dio_isr(l, Ctx)
       IN  /\ Commit(c, OpName("isr", l))
           /\ notified' = notified + Len(SelectSeq(c.sink, LAMBDA e : e = NETDEV_EVENT_ISR))
    /\ pin' = [pin EXCEPT ![l] = FALSE]
    /\ raised' = [raised EXCEPT ![l] = @ + 1]
    /\ UNCHANGED <<rng, boot, cpc, snapshot, observed>>

\* The consumer, woken by a notification, copies dev->irq ...
ConsumerRead ==
    /\ cpc = "idle"
    /\ notified > 0
    /\ notified' = notified - 1
    /\ snapshot' = dev.irq
    /\ cpc' = "read"
    /\ Commit(Ctx, "consumer_read")
    /\ UNCHANGED <<rng, boot, pin, raised, observed>>

\* ... clears it ...
ConsumerClear ==
    /\ cpc = "read"
    /\ cpc' = "dispatch"
    /\ Commit([Ctx EXCEPT !.dev.irq = 0], "consumer_clear")
    /\ UNCHANGED <<rng, boot, pin, notified, snapshot, raised, observed>>

\* ... and calls the handler of each line recorded in its copy.
DioHandler(l) ==
    /\ cpc = "dispatch"
    /\ BitAnd(snapshot, DioFlag(l)) # 0
    /\ snapshot' = BitClear(snapshot, DioFlag(l))
    /\ observed' = [observed EXCEPT ![l] = @ + 1]
    /\ Commit(on_dio(l, Ctx), OpName("on_dio", l))
    /\ UNCHANGED <<rng, boot, pin, notified, cpc, raised>>

ConsumerDone ==
    /\ cpc = "dispatch"
    /\ snapshot = 0
    /\ cpc' = "idle"
    /\ Commit(Ctx, "consumer_done")
    /\ UNCHANGED <<rng, boot, pin, notified, snapshot, raised, observed>>

\* Expiry of an armed one-shot timer runs its callback.
TxTimerExpires ==
    /\ dev.tx_timeout_timer
    /\ Commit(_on_tx_timeout([Ctx EXCEPT !.dev.tx_timeout_timer = FALSE]), "_on_tx_timeout")
    /\ UNCHANGED <<rng, boot, pin, notified, cpc, snapshot, raised, observed>>

RxTimerExpires ==
    /\ dev.rx_timeout_timer
    /\ Commit(_on_rx_timeout([Ctx EXCEPT !.dev.rx_timeout_timer = FALSE]), "_on_rx_timeout")
    /\ UNCHANGED <<rng, boot, pin, notified, cpc, snapshot, raised, observed>>

(***************************************************************************)
(* Application commands, issued from the consumer context by the upper     *)
(* layer that registered the event sink.                                   *)
(***************************************************************************)
AppMayCall == cpc = "idle" /\ dev.event_callback

sx127x_set_tx ==
    /\ AppMayCall
    /\ dev.state \in {SX127X_RF_IDLE, SX127X_RF_SLEEP}
    /\ Commit([Ctx EXCEPT !.dev.state = SX127X_RF_TX_RUNNING,
                          !.dev.tx_timeout_timer = TRUE,
                          !.dev.rx_timeout_timer = FALSE], "sx127x_set_tx")
    /\ UNCHANGED <<rng, boot, pin, notified, cpc, snapshot, raised, observed>>

sx127x_set_rx ==
    /\ AppMayCall
    /\ dev.state \in {SX127X_RF_IDLE, SX127X_RF_SLEEP}
    /\ \E single \in BOOLEAN :
          Commit([Ctx EXCEPT !.dev.state = SX127X_RF_RX_RUNNING,
                             !.dev.tx_timeout_timer = FALSE,
                             !.dev.rx_timeout_timer =
                                 (dev.modem = SX127X_MODEM_LORA /\ ~single)],
                 "sx127x_set_rx")
    /\ UNCHANGED <<rng, boot, pin, notified, cpc, snapshot, raised, observed>>

sx127x_set_sleep ==
    /\ AppMayCall
    /\ dev.state # SX127X_RF_SLEEP
    /\ Commit(do_set_sleep(Ctx), "sx127x_set_sleep")
    /\ UNCHANGED <<rng, boot, pin, notified, cpc, snapshot, raised, observed>>

\* sx127x_random called by the application while the radio is still quiet
\* (no DIO edge recorded yet); the value goes to the caller.
RandomCall ==
    /\ AppMayCall
    /\ Total(raised) = 0
    /\ \E r \in {sx127x_random(Ctx, rng.noise)} : Commit(r.ctx, "sx127x_random")
    /\ UNCHANGED <<rng, boot, pin, notified, cpc, snapshot, raised, observed>>

sx127x_set_modem ==
    /\ AppMayCall
    /\ \E m \in Modems \ {dev.modem} :
          Commit(do_set_modem(Ctx, m), "sx127x_set_modem")
    /\ UNCHANGED <<rng, boot, pin, notified, cpc, snapshot, raised, observed>>

sx127x_set_freq_hop ==
    /\ AppMayCall
    /\ \E on \in BOOLEAN :
          /\ on # (BitAnd(dev.lora_flags, SX127X_CHANNEL_HOPPING_FLAG) # 0)
          /\ Commit([Ctx EXCEPT !.dev.lora_flags =
                        IF on THEN BitOr(@, SX127X_CHANNEL_HOPPING_FLAG)
                              ELSE BitClear(@, SX127X_CHANNEL_HOPPING_FLAG)],
                    "sx127x_set_freq_hop")
    /\ UNCHANGED <<rng, boot, pin, notified, cpc, snapshot, raised, observed>>

Next ==
    \/ \E l \in Lines : ChipPulse(l)
    \/ \E l \in Lines : DioIsr(l)
    \/ ConsumerRead
    \/ ConsumerClear
    \/ \E l \in Lines : DioHandler(l)
    \/ ConsumerDone
    \/ TxTimerExpires
    \/ RxTimerExpires
    \/ sx127x_set_tx
    \/ sx127x_set_rx
    \/ sx127x_set_sleep
    \/ RandomCall
    \/ sx127x_set_modem
    \/ sx127x_set_freq_hop

Spec == Init /\ [][Next]_vars

(***************************************************************************)
(* sx127x_random on its own: one call from every kind of state the device  *)
(* can be in, over every mock noise source; the returned value is kept.    *)
(***************************************************************************)
RandomPreStates ==
    {[state |-> SX127X_RF_SLEEP, tx |-> FALSE, rx |-> FALSE],
     [state |-> SX127X_RF_IDLE, tx |-> FALSE, rx |-> FALSE],
     [state |-> SX127X_RF_RX_RUNNING, tx |-> FALSE, rx |-> FALSE],
     [state |-> SX127X_RF_RX_RUNNING, tx |-> FALSE, rx |-> TRUE],
     [state |-> SX127X_RF_TX_RUNNING, tx |-> TRUE, rx |-> FALSE]}

InitRandom ==
    /\ \E pre \in RandomPreStates, m \in Modems :
          dev = [state |-> pre.state,
                 modem |-> m,
                 lora_flags |-> SX127X_ENABLE_CRC_FLAG,
                 tx_timeout_timer |-> pre.tx,
                 rx_timeout_timer |-> pre.rx,
                 last_channel |-> 0,
                 is_last_cad_success |-> FALSE,
                 irq |-> 0,
                 event_callback |-> TRUE]
    /\ chip = [irqflags |-> 0, hopchannel |-> 0]
    /\ pin = [l \in Lines |-> FALSE]
    /\ bus = <<>>
    /\ sink = <<>>
    /\ op = "init"
    /\ notified = 0
    /\ cpc = "idle"
    /\ snapshot = 0
    /\ raised = [l \in Lines |-> 0]
    /\ observed = [l \in Lines |-> 0]
    /\ \E n \in NoiseSources : rng = [noise |-> n, called |-> FALSE, ret |-> U32Zero]
    /\ boot = BootCompleted

RandomReturns ==
    /\ ~rng.called
    /\ \E r \in {sx127x_random(Ctx, rng.noise)} :
          /\ Commit(r.ctx, "sx127x_random")
          /\ rng' = [rng EXCEPT !.called = TRUE, !.ret = r.rnd]
    /\ UNCHANGED <<boot, pin, notified, cpc, snapshot, raised, observed>>

NextRandom == RandomReturns

SpecRandom == InitRandom /\ [][NextRandom]_vars

(***************************************************************************)
(* Bring-up on its own: sx127x_init statement by statement, with the chip  *)
(* free to pulse its DIO lines at any moment and the MCU taking the edges  *)
(* of the lines that are armed.                                            *)
(***************************************************************************)
InitBoot ==
    /\ dev \in [state : {SX127X_RF_IDLE},
                modem : {SX127X_MODEM_LORA},
                lora_flags : {SX127X_ENABLE_CRC_FLAG},
                tx_timeout_timer : {FALSE},
                rx_timeout_timer : {FALSE},
                last_channel : {0},
                is_last_cad_success : {FALSE},
                irq : {0},
                event_callback : BOOLEAN]
    /\ chip = [irqflags |-> 0, hopchannel |-> 0]
    /\ pin = [l \in Lines |-> FALSE]
    /\ bus = <<>>
    /\ sink = <<>>
    /\ op = "setup"
    /\ notified = 0
    /\ cpc = "idle"
    /\ snapshot = 0
    /\ raised = [l \in Lines |-> 0]
    /\ observed = [l \in Lines |-> 0]
    /\ rng = [noise |-> NoiseSource(0, 31, FALSE, 254), called |-> FALSE, ret |-> U32Zero]
    /\ boot = BootStart

BootStep(b) ==
    /\ boot' = b
    /\ Commit(Ctx, "sx127x_init")
    /\ UNCHANGED <<rng, pin, notified, cpc, snapshot, raised, observed>>

BootPeripherals ==
    /\ boot.pc = "_init_peripherals"
    /\ \E spi_ok \in BOOLEAN, nss_ok \in BOOLEAN :
          BootStep(sx127x_init_peripherals(boot, spi_ok, nss_ok))

BootTest ==
    /\ boot.pc = "sx127x_test"
    /\ \E present \in BOOLEAN : BootStep(sx127x_init_test(boot, present))

BootTimers ==
    /\ boot.pc = "_init_timers"
    /\ \E over \in {0, MaxOversleep} : BootStep(sx127x_init_timers(boot, over))

BootReset ==
    /\ boot.pc = "sx127x_reset"
    /\ \E over1 \in {0, MaxOversleep}, over2 \in {0, MaxOversleep} :
          BootStep(sx127x_init_reset(boot, over1, over2))

BootCalibration ==
    /\ boot.pc = "sx127x_rx_chain_calibration"
    /\ BootStep(sx127x_init_calibration(boot))

BootSleep ==
    /\ boot.pc = "sx127x_set_op_mode"
    /\ boot' = sx127x_init_sleep(boot)
    /\ Commit(do_set_op_mode(Ctx, SX127X_RF_OPMODE_SLEEP), "sx127x_init")
    /\ UNCHANGED <<rng, pin, notified, cpc, snapshot, raised, observed>>

BootArm ==
    /\ boot.pc = "_init_isrs"
    /\ boot.dio \in Lines
    /\ \E ok \in BOOLEAN : BootStep(_init_isrs_line(boot, boot.dio, ok))

BootReturn ==
    /\ boot.pc = "_init_isrs"
    /\ boot.dio \notin Lines
    /\ BootStep(sx127x_init_return(boot))

\* The chip pulses a line nobody listens on: its flags latch, the edge is lost.
EarlyEdge(l) ==
    /\ ~boot.armed[l]
    /\ Total(raised) + Cardinality({k \in Lines : pin[k]}) + boot.lost < MaxEdges
    /\ \E f \in ChipFlagsOfLine(l) :
       \E h \in (IF l = 2 THEN HopChannelValues ELSE {chip.hopchannel}) :
          Commit([Ctx EXCEPT !.chip = [irqflags |-> BitOr(chip.irqflags, f),
                                       hopchannel |-> h]], "chip")
    /\ boot' = [boot EXCEPT !.lost = @ + 1]
    /\ UNCHANGED <<rng, pin, notified, cpc, snapshot, raised, observed>>

NextBoot ==
    \/ BootPeripherals
    \/ BootTest
    \/ BootTimers
    \/ BootReset
    \/ BootCalibration
    \/ BootSleep
    \/ BootArm
    \/ BootReturn
    \/ \E l \in Lines : EarlyEdge(l)
    \/ \E l \in Lines : ChipPulse(l)
    \/ \E l \in Lines : DioIsr(l)

SpecBoot == InitBoot /\ [][NextBoot]_vars

(***************************************************************************)
(* Vocabulary of the properties.                                           *)
(***************************************************************************)
Count(s, e) == Len(SelectSeq(s, LAMBDA x : x = e))

\* The writes to RegIrqFlags among the accesses b, in order.
IrqFlagWrites(b) ==
    SelectSeq(b, LAMBDA a : a.rw = "w" /\ a.reg = SX127X_REG_LR_IRQFLAGS)

IrqFlagWrite(val) == [rw |-> "w", reg |-> SX127X_REG_LR_IRQFLAGS, val |-> val]

Hopping(d) == BitAnd(d.lora_flags, SX127X_CHANNEL_HOPPING_FLAG) # 0

Has(reg, bit) == BitAnd(reg, bit) = bit

\* The step changed none of: mode, modem, timers, last-hopped-channel,
\* last-CAD-result, chip IRQ flag register; and emitted nothing.
NoMutation ==
    /\ dev'.state = dev.state
    /\ dev'.modem = dev.modem
    /\ dev'.tx_timeout_timer = dev.tx_timeout_timer
    /\ dev'.rx_timeout_timer = dev.rx_timeout_timer
    /\ dev'.last_channel = dev.last_channel
    /\ dev'.is_last_cad_success = dev.is_last_cad_success
    /\ chip'.irqflags = chip.irqflags
    /\ sink' = <<>>

\* C1: every DIO0 event handled while TxRunning with the LoRa modem leaves the
\* TX-timeout timer cancelled and the mode Idle, emits exactly one TxComplete,
\* and its only write to the IRQ flag register carries the TXDONE bit alone.
C1_Dio0TxLora ==
    [][(op' = "on_dio0" /\ dev.state = SX127X_RF_TX_RUNNING
                        /\ dev.modem = SX127X_MODEM_LORA)
        => /\ ~dev'.tx_timeout_timer
           /\ dev'.state = SX127X_RF_IDLE
           /\ Count(sink', NETDEV_EVENT_TX_COMPLETE) = 1
           /\ IrqFlagWrites(bus') = <<IrqFlagWrite(SX127X_RF_LORA_IRQFLAGS_TXDONE)>>]_vars

C1_Witness ==
    /\ op = "on_dio0"
    /\ sink = <<NETDEV_EVENT_TX_COMPLETE>>
    /\ dev.state = SX127X_RF_IDLE
    /\ dev.modem = SX127X_MODEM_LORA
    /\ IrqFlagWrites(bus) # <<>>

\* C2: a DIO1 event handled when the mode is not RxRunning or the modem is not
\* LoRa changes none of mode, modem, timers, last-hopped-channel,
\* last-CAD-result and chip IRQ flag register, and emits nothing.
C2_Dio1Unrelated ==
    [][(op' = "on_dio1" /\ (dev.state # SX127X_RF_RX_RUNNING
                            \/ dev.modem # SX127X_MODEM_LORA))
        => NoMutation]_vars

C2_Witness ==
    /\ op = "on_dio1"
    /\ sink = <<>>
    /\ dev.state = SX127X_RF_RX_RUNNING
    /\ dev.modem = SX127X_MODEM_FSK
    /\ dev.rx_timeout_timer
    /\ Has(chip.irqflags, SX127X_RF_LORA_IRQFLAGS_RXTIMEOUT)

\* C3: every DIO1 event handled while RxRunning with the LoRa modem cancels the
\* RX-timeout timer, writes the RXTIMEOUT bit alone to the IRQ flag register
\* (its only write there), makes the mode Idle and emits exactly one RxTimeout.
C3_Dio1RxLora ==
    [][(op' = "on_dio1" /\ dev.state = SX127X_RF_RX_RUNNING
                        /\ dev.modem = SX127X_MODEM_LORA)
        => /\ ~dev'.rx_timeout_timer
           /\ IrqFlagWrites(bus') = <<IrqFlagWrite(SX127X_RF_LORA_IRQFLAGS_RXTIMEOUT)>>
           /\ dev'.state = SX127X_RF_IDLE
           /\ Count(sink', NETDEV_EVENT_RX_TIMEOUT) = 1]_vars

C3_Witness ==
    /\ op = "on_dio1"
    /\ sink = <<NETDEV_EVENT_RX_TIMEOUT>>
    /\ dev.state = SX127X_RF_IDLE
    /\ ~dev.rx_timeout_timer
    /\ bus = <<IrqFlagWrite(SX127X_RF_LORA_IRQFLAGS_RXTIMEOUT)>>

\* C4: with frequency hopping disabled, a DIO2 event handled in any mode and
\* with any modem leaves last-hopped-channel as it was and emits no
\* FhssChangeChannel, however many such events are handled.
C4_Dio2HoppingOff ==
    [][(op' = "on_dio2" /\ ~Hopping(dev))
        => /\ dev'.last_channel = dev.last_channel
           /\ Count(sink', NETDEV_EVENT_FHSS_CHANGE_CHANNEL) = 0]_vars

\* Two DIO2 events handled, LoRa and RxRunning, hopping off, while the chip
\* shows a hop channel other than the stored one.
C4_Witness ==
    /\ op = "on_dio2"
    /\ observed[2] = 2
    /\ ~Hopping(dev)
    /\ dev.modem = SX127X_MODEM_LORA
    /\ dev.state = SX127X_RF_RX_RUNNING
    /\ BitAnd(chip.hopchannel, SX127X_RF_LORA_HOPCHANNEL_CHANNEL_MASK) # dev.last_channel

\* C5: every DIO2 event handled with the LoRa modem, hopping enabled and mode
\* RxRunning or TxRunning stores the hop-channel register masked to the channel
\* field as last-hopped-channel, emits exactly one FhssChangeChannel, writes the
\* FHSS-changed-channel bit alone to the IRQ flag register (its only write
\* there, so every other flag stays as it was), and leaves mode and timers alone.
C5_Dio2Hop ==
    [][(op' = "on_dio2" /\ dev.modem = SX127X_MODEM_LORA /\ Hopping(dev)
                        /\ dev.state \in {SX127X_RF_RX_RUNNING, SX127X_RF_TX_RUNNING})
        => /\ dev'.last_channel = chip.hopchannel % 64
           /\ Count(sink', NETDEV_EVENT_FHSS_CHANGE_CHANNEL) = 1
           /\ IrqFlagWrites(bus') =
                  <<IrqFlagWrite(SX127X_RF_LORA_IRQFLAGS_FHSSCHANGEDCHANNEL)>>
           /\ chip'.irqflags =
                  BitClear(chip.irqflags, SX127X_RF_LORA_IRQFLAGS_FHSSCHANGEDCHANNEL)
           /\ dev'.state = dev.state
           /\ dev'.tx_timeout_timer = dev.tx_timeout_timer
           /\ dev'.rx_timeout_timer = dev.rx_timeout_timer]_vars

\* The scenario of the specification: RxRunning, LoRa, hopping on, raw hop
\* register 195 (channel field 3), RXDONE pending in the flag register.
C5_Witness ==
    /\ op = "on_dio2"
    /\ sink = <<NETDEV_EVENT_FHSS_CHANGE_CHANNEL>>
    /\ dev.state = SX127X_RF_RX_RUNNING
    /\ chip.hopchannel = 195
    /\ dev.last_channel = 3
    /\ chip.irqflags = SX127X_RF_LORA_IRQFLAGS_RXDONE

\* C6: every DIO3 event handled with the LoRa modem stores last-CAD-result as
\* true exactly when CAD-detected was set in the IRQ flag register when the
\* event was raised, clears CAD-detected and CAD-done, and emits one CadDone.
C6_Dio3CadResult ==
    [][(op' = "on_dio3" /\ dev.modem = SX127X_MODEM_LORA)
        => /\ dev'.is_last_cad_success =
                  Has(chip.irqflags, SX127X_RF_LORA_IRQFLAGS_CADDETECTED)
           /\ ~Has(chip'.irqflags, SX127X_RF_LORA_IRQFLAGS_CADDETECTED)
           /\ ~Has(chip'.irqflags, SX127X_RF_LORA_IRQFLAGS_CADDONE)
           /\ Count(sink', NETDEV_EVENT_CAD_DONE) = 1]_vars

\* C7: every DIO0 event handled while RxRunning (either modem) emits exactly
\* one RxComplete and keeps the mode RxRunning; the handler changes neither
\* timer nor the chip IRQ flag register.
C7_Dio0Rx ==
    [][(op' = "on_dio0" /\ dev.state = SX127X_RF_RX_RUNNING)
        => /\ Count(sink', NETDEV_EVENT_RX_COMPLETE) = 1
           /\ dev'.state = SX127X_RF_RX_RUNNING
           /\ dev'.tx_timeout_timer = dev.tx_timeout_timer
           /\ dev'.rx_timeout_timer = dev.rx_timeout_timer
           /\ chip'.irqflags = chip.irqflags
           /\ IrqFlagWrites(bus') = <<>>]_vars

C7_Witness ==
    /\ op = "on_dio0"
    /\ sink = <<NETDEV_EVENT_RX_COMPLETE>>
    /\ dev.state = SX127X_RF_RX_RUNNING
    /\ dev.rx_timeout_timer
    /\ Has(chip.irqflags, SX127X_RF_LORA_IRQFLAGS_RXDONE)

\* C8: a DIO0, DIO1 or DIO2 event handled while Idle or Sleep, and a DIO3
\* event handled with the FSK modem, mutates nothing: mode, modem, timers,
\* last-hopped-channel, last-CAD-result and chip IRQ flag register stay as they
\* were and nothing is emitted.
C8_FailOpen ==
    [][(\/ /\ op' \in {"on_dio0", "on_dio1", "on_dio2"}
           /\ dev.state \in {SX127X_RF_IDLE, SX127X_RF_SLEEP}
        \/ /\ op' = "on_dio3"
           /\ dev.modem = SX127X_MODEM_FSK)
        => NoMutation]_vars

C8_Witness ==
    /\ op = "on_dio3"
    /\ dev.modem = SX127X_MODEM_FSK
    /\ sink = <<>>
    /\ Has(chip.irqflags, SX127X_RF_LORA_IRQFLAGS_CADDETECTED)
    /\ Has(chip.irqflags, SX127X_RF_LORA_IRQFLAGS_CADDONE)

HandlerOps == {OpName("on_dio", l) : l \in Lines}

AppOps == {"sx127x_set_tx", "sx127x_set_rx", "sx127x_set_sleep", "sx127x_random",
           "sx127x_set_modem", "sx127x_set_freq_hop"}

HandlerEvents == {NETDEV_EVENT_RX_COMPLETE, NETDEV_EVENT_TX_COMPLETE,
                  NETDEV_EVENT_RX_TIMEOUT, NETDEV_EVENT_FHSS_CHANGE_CHANNEL,
                  NETDEV_EVENT_CAD_DONE}

\* The ISR of line l only ORs the line's flag into dev->irq and raises one
\* InterruptPending (none without a registered sink): no register access, no
\* mode change, no timer change, no other event.
IsrOnlyRecords ==
    \A l \in Lines :
        op' = OpName("isr", l)
        => /\ dev' = [dev EXCEPT !.irq = BitOr(@, DioFlag(l))]
           /\ chip' = chip
           /\ bus' = <<>>
           /\ sink' = IF dev.event_callback THEN <<NETDEV_EVENT_ISR>> ELSE <<>>

\* Outside the application's own commands, a step that accesses a register,
\* changes the mode, cancels a timer (a timer's own expiry is no cancellation)
\* or emits one of the handler events is a step of sx127x_on_dio0..3.
OnlyInHandlers ==
    (/\ op' \notin AppOps
     /\ \/ bus' # <<>>
        \/ dev'.state # dev.state
        \/ dev.tx_timeout_timer /\ ~dev'.tx_timeout_timer /\ op' # "_on_tx_timeout"
        \/ dev.rx_timeout_timer /\ ~dev'.rx_timeout_timer /\ op' # "_on_rx_timeout"
        \/ \E e \in HandlerEvents : Count(sink', e) > 0)
    => op' \in HandlerOps

\* The part of C9 about the interrupt service routines alone.
C9_IsrPart == [][IsrOnlyRecords]_vars

\* C9: a DIO edge handled in interrupt context only records its flag and
\* raises one InterruptPending (none without a sink); register I/O, mode
\* transitions, timer cancellation and the emissions of RxComplete, TxComplete,
\* RxTimeout, FhssChangeChannel and CadDone happen only in sx127x_on_dio0..3.
C9_InterruptContext == [][IsrOnlyRecords /\ OnlyInHandlers]_vars

\* Bit(w, f): 1 when flag f is set in the flags word w, else 0.
Bit(w, f) == IF BitAnd(w, f) # 0 THEN 1 ELSE 0

\* C10: no edge recorded by an ISR is lost and each is observed by the consumer
\* exactly once: the consumer never handles more events of a line than edges
\* were recorded; every recorded edge not yet handled is still held, in
\* dev->irq or in the consumer's copy of it; and once the consumer is idle with
\* no notification left it has handled every recorded edge (given a
\* registered event sink, without which no consumer is ever woken).
C10_NoEdgeLost ==
    dev.event_callback
    => /\ \A l \in Lines : observed[l] <= raised[l]
       /\ \A l \in Lines :
             raised[l] - observed[l]
                 <= Bit(dev.irq, DioFlag(l)) + Bit(snapshot, DioFlag(l))
       /\ (cpc = "idle" /\ notified = 0)
          => \A l \in Lines : observed[l] = raised[l]

\* The flag bits a handler of line l clears for the event it handles.
HandledBits(l) ==
    CASE l = 0 -> SX127X_RF_LORA_IRQFLAGS_TXDONE
      [] l = 1 -> SX127X_RF_LORA_IRQFLAGS_RXTIMEOUT
      [] l = 2 -> SX127X_RF_LORA_IRQFLAGS_FHSSCHANGEDCHANNEL
      [] l = 3 -> BitOr(SX127X_RF_LORA_IRQFLAGS_CADDETECTED,
                        SX127X_RF_LORA_IRQFLAGS_CADDONE)

\* The handler step acted: it emitted an event or changed the mode.
Acted == sink' # <<>> \/ dev'.state # dev.state

\* C12 as stated: every handler step that acts clears the flag of its event in
\* the chip IRQ flag register, by a write that carries those bits alone.
C12_ActedFlagsCleared ==
    [][\A l \in Lines :
          (op' = OpName("on_dio", l) /\ Acted)
          => IrqFlagWrites(bus') = <<IrqFlagWrite(HandledBits(l))>>
             \/ (l = 0 /\ IrqFlagWrites(bus') =
                              <<IrqFlagWrite(SX127X_RF_LORA_IRQFLAGS_RXDONE)>>)]_vars

\* C12 amended: every write a handler makes to the chip IRQ flag register
\* carries the bits of its own event alone (never a blanket clear); a handler
\* that acts with the LoRa modem makes exactly one such write, except DIO0 in
\* RxRunning, which leaves RXDONE to the caller; with another modem a handler
\* that acts (DIO0 in RxRunning or TxRunning) writes nothing there.
C12_WritesOnlyEventBits ==
    [][\A l \in Lines :
          op' = OpName("on_dio", l)
          => /\ \A k \in 1 .. Len(IrqFlagWrites(bus')) :
                    IrqFlagWrites(bus')[k] = IrqFlagWrite(HandledBits(l))
             /\ Acted
                => Len(IrqFlagWrites(bus')) =
                      (IF dev.modem = SX127X_MODEM_LORA
                          /\ ~(l = 0 /\ dev.state = SX127X_RF_RX_RUNNING)
                       THEN 1 ELSE 0)]_vars

C12_Witness ==
    /\ op = "on_dio2"
    /\ sink = <<NETDEV_EVENT_FHSS_CHANGE_CHANNEL>>
    /\ dev.state = SX127X_RF_TX_RUNNING
    /\ bus[1] = IrqFlagWrite(SX127X_RF_LORA_IRQFLAGS_FHSSCHANGEDCHANNEL)
    /\ Has(chip.irqflags, SX127X_RF_LORA_IRQFLAGS_TXDONE)

\* C18: every DIO0 event handled while TxRunning with a modem other than LoRa
\* cancels the TX-timeout timer, makes the mode Idle, emits exactly one
\* TxComplete and writes nothing to the LoRa IRQ flag register.
C18_Dio0TxFsk ==
    [][(op' = "on_dio0" /\ dev.state = SX127X_RF_TX_RUNNING
                        /\ dev.modem # SX127X_MODEM_LORA)
        => /\ ~dev'.tx_timeout_timer
           /\ dev'.state = SX127X_RF_IDLE
           /\ Count(sink', NETDEV_EVENT_TX_COMPLETE) = 1
           /\ IrqFlagWrites(bus') = <<>>]_vars

C18_Witness ==
    /\ op = "on_dio0"
    /\ sink = <<NETDEV_EVENT_TX_COMPLETE>>
    /\ dev.state = SX127X_RF_IDLE
    /\ dev.modem = SX127X_MODEM_FSK
    /\ bus = <<>>
    /\ Has(chip.irqflags, SX127X_RF_LORA_IRQFLAGS_TXDONE)

\* C19: after a DIO0 event handled in TxRunning no TxTimeout is emitted until
\* a new transmission is started, and after a DIO1 event handled in RxRunning
\* with LoRa the RX-timeout callback emits nothing until a new receive is
\* started.  Step by step: the handler leaves the timer disarmed; a disarmed
\* timer is armed again only by sx127x_set_tx (resp. sx127x_set_rx); and a
\* timeout callback runs, and TxTimeout is emitted, only from an armed timer.
C19_NoTimeoutAfterCompletion ==
    [][/\ (op' = "on_dio0" /\ dev.state = SX127X_RF_TX_RUNNING)
          => ~dev'.tx_timeout_timer
       /\ (op' = "on_dio1" /\ dev.state = SX127X_RF_RX_RUNNING
                           /\ dev.modem = SX127X_MODEM_LORA)
          => ~dev'.rx_timeout_timer
       /\ (~dev.tx_timeout_timer /\ dev'.tx_timeout_timer) => op' = "sx127x_set_tx"
       /\ (~dev.rx_timeout_timer /\ dev'.rx_timeout_timer) => op' = "sx127x_set_rx"
       /\ Count(sink', NETDEV_EVENT_TX_TIMEOUT) > 0
          => (op' = "_on_tx_timeout" /\ dev.tx_timeout_timer)
       /\ op' = "_on_rx_timeout" => dev.rx_timeout_timer]_vars

\* The consumer has finished handling one DIO0 event that ended a
\* transmission: Idle, the TX timer disarmed.
C19_Witness ==
    /\ op = "consumer_done"
    /\ observed[0] = 1
    /\ observed[1] = 0
    /\ dev.state = SX127X_RF_IDLE
    /\ ~dev.tx_timeout_timer

\* C20: the expiry of the TX-timeout (resp. RX-timeout) timer emits exactly
\* one TxTimeout (resp. RxTimeout) from the timer callback and changes nothing
\* else: the mode, the other timer, IrqFlags, last-hopped-channel,
\* last-CAD-result and the chip IRQ flag register stay as they were.
C20_TimerExpiryOnlyEmits ==
    [][/\ op' = "_on_tx_timeout"
          => /\ sink' = <<NETDEV_EVENT_TX_TIMEOUT>>
             /\ dev' = [dev EXCEPT !.tx_timeout_timer = FALSE]
             /\ chip' = chip
             /\ bus' = <<>>
       /\ op' = "_on_rx_timeout"
          => /\ sink' = <<NETDEV_EVENT_RX_TIMEOUT>>
             /\ dev' = [dev EXCEPT !.rx_timeout_timer = FALSE]
             /\ chip' = chip
             /\ bus' = <<>>]_vars

C20_Witness ==
    /\ op = "_on_tx_timeout"
    /\ sink = <<NETDEV_EVENT_TX_TIMEOUT>>
    /\ dev.state = SX127X_RF_TX_RUNNING
    /\ dev.irq # 0


(***************************************************************************)
(* C13                                                                     *)
(***************************************************************************)
\* Bits from..to of the value whose bit i is the low bit of noise[i], as a sum.
RECURSIVE SumBits(_, _, _)
SumBits(noise, from, to) ==
    IF from > to THEN 0
    ELSE (noise[to] % 2) * Pow2(to - from) + SumBits(noise, from, to - 1)

NoiseReads(b) ==
    Cardinality({i \in 1 .. Len(b) :
        b[i].rw = "r" /\ b[i].reg = SX127X_REG_LR_RSSIWIDEBAND})

\* C13: with a noise source whose i-th read has low bit b_i, sx127x_random
\* returns the 32-bit value sum of b_i * 2^i, reads the wideband-noise
\* register exactly 32 times, and leaves the device in Sleep.
C13_RandomValue ==
    rng.called =>
        /\ rng.ret.lo = SumBits(rng.noise, 0, 15)
        /\ rng.ret.hi = SumBits(rng.noise, 16, 31)
        /\ NoiseReads(bus) = 32
        /\ dev.state = SX127X_RF_SLEEP

C13_Witness ==
    /\ rng.called
    /\ op = "sx127x_random"
    /\ rng.noise[0] = 255
    /\ rng.noise[31] = 255
    /\ rng.noise[7] = 254
    /\ rng.ret.hi >= 32768
    /\ rng.ret.lo % 2 = 1
    /\ \E i \in 1 .. 30 : rng.noise[i] % 2 = 1

(***************************************************************************)
(* C11                                                                     *)
(***************************************************************************)
Resting == {SX127X_RF_IDLE, SX127X_RF_SLEEP}

\* C11: whenever the mode is Idle or Sleep, neither the TX nor the RX timeout
\* timer is armed; and the only steps of this file that enter Idle or Sleep
\* are DIO0 in TxRunning, DIO1 in RxRunning with the LoRa modem, and the
\* forced Sleep at the end of sx127x_random.
C11_NoTimerWhenResting ==
    /\ [](dev.state \in Resting =>
             ~dev.tx_timeout_timer /\ ~dev.rx_timeout_timer)
    /\ [][(/\ dev'.state \in Resting
           /\ dev'.state # dev.state
           /\ op' \notin {"sx127x_set_tx", "sx127x_set_rx", "sx127x_set_sleep"})
          => \/ op' = "on_dio0" /\ dev.state = SX127X_RF_TX_RUNNING
             \/ /\ op' = "on_dio1"
                /\ dev.state = SX127X_RF_RX_RUNNING
                /\ dev.modem = SX127X_MODEM_LORA
             \/ op' = "sx127x_random"]_vars

C11_Witness ==
    /\ op = "on_dio1"
    /\ dev.state = SX127X_RF_IDLE
    /\ sink = <<NETDEV_EVENT_RX_TIMEOUT>>
    /\ ~dev.rx_timeout_timer

(***************************************************************************)
(* C14 - C17: bring-up                                                     *)
(***************************************************************************)
CallsMade == {boot.log[i].call : i \in 1 .. Len(boot.log)}

At(name, arg) ==
    {i \in 1 .. Len(boot.log) : boot.log[i].call = name /\ boot.log[i].arg = arg}

IsResetPinCall(e) == e.arg \in {"reset_pin, GPIO_OUT", "reset_pin", "reset_pin, GPIO_IN"}

ResetPinCalls ==
    LET sel == SelectSeq(boot.log, IsResetPinCall)
    IN  [i \in 1 .. Len(sel) |-> <<sel[i].call, sel[i].arg>>]

ResetDone == boot.ret = SX127X_INIT_OK \/ "sx127x_rx_chain_calibration" \in CallsMade

\* C14: the reset pin is made an output and driven low, held for at least
\* 1 ms, then made a high-impedance input, and nothing else is done to it;
\* the first register access after the pin was driven low is the RX-chain
\* calibration, at least 10 ms after the pin was released; no register access
\* falls between driving the pin low and the end of that wait.
C14_ResetTiming ==
    /\ ResetDone =>
          ResetPinCalls = << <<"gpio_init", "reset_pin, GPIO_OUT">>,
                             <<"gpio_clear", "reset_pin">>,
                             <<"gpio_init", "reset_pin, GPIO_IN">> >>
    /\ \A k \in At("gpio_clear", "reset_pin") :
       \A i \in 1 .. Len(boot.log) :
          (boot.log[i].spi /\ k < i) =>
             \E h \in At("gpio_init", "reset_pin, GPIO_IN") :
                /\ k < h /\ h < i
                /\ boot.log[h].at - boot.log[k].at >= 1000
                /\ boot.log[i].at - boot.log[h].at >= 10000
                /\ \E c \in At("sx127x_rx_chain_calibration", "") : h < c /\ c <= i
    /\ (boot.pc = "sx127x_rx_chain_calibration" /\ op = "sx127x_init") =>
          \E h \in At("gpio_init", "reset_pin, GPIO_IN") :
             boot.now - boot.log[h].at >= 10000

C14_Witness ==
    /\ boot.pc = "sx127x_set_op_mode"
    /\ \E c \in At("sx127x_rx_chain_calibration", ""),
          h \in At("gpio_init", "reset_pin, GPIO_IN"),
          k \in At("gpio_clear", "reset_pin") :
          /\ boot.log[c].at - boot.log[h].at = 10000
          /\ boot.log[h].at - boot.log[k].at = 1000 + MaxOversleep

Fatal == {Neg(SX127X_ERR_SPI), Neg(SX127X_ERR_TEST_FAILED)}

LastCall == boot.log[Len(boot.log)]

\* C15: a failed SPI or chip-select binding makes sx127x_init return the SPI
\* error with no presence test, reset, calibration, mode change or DIO arming
\* done; a failed presence test makes it return the test-failed error with no
\* timer initialisation, reset, calibration, mode change or DIO arming done;
\* success is returned only when both succeeded; no call is made twice.
C15_FirstFatalError ==
    /\ boot.ret \in {"none", SX127X_INIT_OK} \cup Fatal
    /\ boot.pc = "returned" <=> boot.ret # "none"
    /\ boot.ret = Neg(SX127X_ERR_SPI) =>
          /\ CallsMade \subseteq {"spi_init_cs", "gpio_init"}
          /\ ~LastCall.ok
          /\ \A i \in 1 .. Len(boot.log) : boot.log[i].arg \in {"nss_pin", "nss_pin, GPIO_OUT"}
    /\ boot.ret = Neg(SX127X_ERR_TEST_FAILED) =>
          /\ CallsMade \subseteq {"spi_init_cs", "gpio_init", "gpio_set", "sx127x_test"}
          /\ LastCall.call = "sx127x_test" /\ ~LastCall.ok
          /\ \A i \in 1 .. Len(boot.log) :
                boot.log[i].arg \in {"nss_pin", "nss_pin, GPIO_OUT", ""}
    /\ boot.ret \in Fatal =>
          /\ dev.state = SX127X_RF_IDLE
          /\ \A l \in Lines : ~boot.armed[l]
          /\ dev.irq = 0 /\ notified = 0
    /\ boot.ret = SX127X_INIT_OK =>
          /\ \A i \in 1 .. Len(boot.log) : boot.log[i].call # "gpio_init_int" => boot.log[i].ok
          /\ {"spi_init_cs", "gpio_set", "sx127x_test"} \subseteq CallsMade
    /\ \A i \in 1 .. Len(boot.log) : \A j \in 1 .. Len(boot.log) :
          (i < j /\ boot.log[i].call = boot.log[j].call /\ boot.log[i].arg = boot.log[j].arg)
             => boot.log[i].call = "xtimer_usleep"
    /\ \A i \in 1 .. Len(boot.log) :
          ~boot.log[i].ok /\ boot.log[i].call # "gpio_init_int" => i = Len(boot.log)

C15_Witness ==
    /\ boot.ret = Neg(SX127X_ERR_TEST_FAILED)
    /\ op = "sx127x_init"
    /\ Len(boot.log) = 4
    /\ boot.lost > 0

ArmCalls ==
    LET sel == SelectSeq(boot.log, LAMBDA e : e.call = "gpio_init_int")
    IN  [i \in 1 .. Len(sel) |-> sel[i].arg]

\* C16: whichever of the four DIO registrations fail, sx127x_init goes on to
\* the remaining lines and returns success; a line whose registration
\* succeeded takes its edges: its ISR records the line's flag and raises
\* InterruptPending.
C16_ArmFailureNonFatal ==
    /\ []((boot.pc = "returned" /\ "sx127x_set_op_mode" \in CallsMade) =>
             /\ boot.ret = SX127X_INIT_OK
             /\ ArmCalls = <<"dio0_pin", "dio1_pin", "dio2_pin", "dio3_pin">>)
    /\ [](\A l \in Lines : (boot.dio > l) =>
             (boot.armed[l] <=> \E i \in At("gpio_init_int", OpName("dio", l) \o "_pin") :
                                   boot.log[i].ok))
    /\ [](\A l \in Lines : (boot.armed[l] /\ pin[l]) => ENABLED DioIsr(l))
    /\ [][\A l \in Lines : op' = OpName("isr", l) =>
             /\ boot.armed[l]
             /\ Bit(dev'.irq, DioFlag(l)) = 1
             /\ dev.event_callback => sink' = <<NETDEV_EVENT_ISR>>]_vars

C16_Witness ==
    /\ boot.ret = SX127X_INIT_OK
    /\ ~boot.armed[0] /\ boot.armed[1] /\ boot.armed[2] /\ ~boot.armed[3]
    /\ op = "isr1"
    /\ Bit(dev.irq, SX127X_IRQ_DIO1) = 1
    /\ sink = <<NETDEV_EVENT_ISR>>

IsMilestone(e) ==
    e.call \in {"spi_init_cs", "sx127x_test", "_init_timers", "gpio_clear",
                "sx127x_rx_chain_calibration", "sx127x_set_op_mode", "gpio_init_int"}

Milestones ==
    LET sel == SelectSeq(boot.log, IsMilestone)
    IN  [i \in 1 .. Len(sel) |-> sel[i].call]

\* C17: a successful sx127x_init has bound SPI and chip select, tested for
\* the chip, initialised the timers, reset the chip, calibrated the RX chain,
\* set Sleep and armed DIO0..DIO3, in this order; and no DIO line is armed,
\* no edge is recorded in dev->irq and no InterruptPending is raised before
\* the chip was reset, calibrated and put to Sleep.
C17_InitOrder ==
    /\ boot.ret = SX127X_INIT_OK =>
          /\ Milestones = <<"spi_init_cs", "sx127x_test", "_init_timers", "gpio_clear",
                            "sx127x_rx_chain_calibration", "sx127x_set_op_mode",
                            "gpio_init_int", "gpio_init_int", "gpio_init_int",
                            "gpio_init_int">>
          /\ ArmCalls = <<"dio0_pin", "dio1_pin", "dio2_pin", "dio3_pin">>
    /\ (\/ dev.irq # 0
        \/ notified > 0
        \/ Total(raised) > 0
        \/ \E l \in Lines : boot.armed[l] \/ pin[l]
        \/ "gpio_init_int" \in CallsMade) =>
          \E r \in At("gpio_clear", "reset_pin"),
             c \in At("sx127x_rx_chain_calibration", ""),
             m \in At("sx127x_set_op_mode", "SX127X_RF_OPMODE_SLEEP") :
             /\ r < c /\ c < m
             /\ \A a \in 1 .. Len(boot.log) : boot.log[a].call = "gpio_init_int" => m < a
             /\ dev.state = SX127X_RF_SLEEP

C17_Witness ==
    /\ boot.ret = SX127X_INIT_OK
    /\ boot.lost > 0
    /\ op = "isr0"
    /\ dev.irq = SX127X_IRQ_DIO0
    /\ notified = 1
====
